---- MODULE Spec2Model ----
(***************************************************************************)
(* A model of token-estimator.py: the estimator estimate_tokens, the file  *)
(* filter should_skip_file, the directory scan analyze_directory and the   *)
(* entry point main.                                                       *)
(*                                                                         *)
(* Strings are sequences of one-character strings, so that startswith,     *)
(* Path.suffix and str.lower are computed rather than assumed.  Python     *)
(* floats are IEEE-754 doubles: a mantissa of 53 bits (least significant   *)
(* bit first) and a binary exponent, with round-to-nearest-even after      *)
(* every operation.                                                        *)
(*                                                                         *)
(* Writing to the console and closing a file that was read are taken not   *)
(* to fail; symbolic links and directories that cannot be listed are not   *)
(* modelled.  The variables visited and processed are history variables:   *)
(* the program does not keep them.                                         *)
(***************************************************************************)
EXTENDS Integers, Sequences, FiniteSets, TLC

(***************************************************************************)
(* Bounds of the model.                                                    *)
(***************************************************************************)
\* estimate_tokens is applied to every char_count in 0..MaxChars
MaxChars == 700

\* a directory of the general trees lists at most MaxFiles file entries
MaxFiles == 2

\* a large directory lists up to TopN + MaxExtra generated files
MaxExtra == 1

(***************************************************************************)
(* Strings.                                                                *)
(***************************************************************************)
UpperCase ==
    <<"A","B","C","D","E","F","G","H","I","J","K","L","M",
      "N","O","P","Q","R","S","T","U","V","W","X","Y","Z">>

LowerCase ==
    <<"a","b","c","d","e","f","g","h","i","j","k","l","m",
      "n","o","p","q","r","s","t","u","v","w","x","y","z">>

\* one character of str.lower()
LowerChar(ch) ==
    IF \E i \in DOMAIN UpperCase : UpperCase[i] = ch
    THEN LowerCase[CHOOSE i \in DOMAIN UpperCase : UpperCase[i] = ch]
    ELSE ch

\* str.lower()
lower(s) == [i \in 1..Len(s) |-> LowerChar(s[i])]

\* str.startswith(ch) for a one-character prefix
startswith(s, ch) == Len(s) >= 1 /\ s[1] = ch

\* str.rfind(ch), counted from 1; 0 when ch does not occur
rfind(s, ch) ==
    IF \E i \in 1..Len(s) : s[i] = ch
    THEN CHOOSE i \in 1..Len(s) : s[i] = ch /\ \A j \in (i+1)..Len(s) : s[j] # ch
    ELSE 0

\* pathlib's PurePath.suffix of a file name: the text from the last dot on,
\* unless that dot is the first or the last character of the name
suffix(name) ==
    LET i == rfind(name, ".")
    IN  IF 1 < i /\ i < Len(name) THEN SubSeq(name, i, Len(name)) ELSE <<>>

(***************************************************************************)
(* The tables of the program.                                              *)
(***************************************************************************)
TOKEN_MULTIPLIERS ==
       (<<".","p","y">> :> 15)
    @@ (<<".","j","s">> :> 18)
    @@ (<<".","j","s","x">> :> 18)
    @@ (<<".","t","s">> :> 18)
    @@ (<<".","t","s","x">> :> 18)
    @@ (<<".","j","a","v","a">> :> 22)
    @@ (<<".","c">> :> 20)
    @@ (<<".","c","p","p">> :> 20)
    @@ (<<".","c","s">> :> 22)
    @@ (<<".","g","o">> :> 16)
    @@ (<<".","r","s">> :> 18)
    @@ (<<".","r","b">> :> 16)
    @@ (<<".","p","h","p">> :> 20)
    @@ (<<".","s","w","i","f","t">> :> 20)
    @@ (<<".","k","t">> :> 22)
    @@ (<<".","h","t","m","l">> :> 12)
    @@ (<<".","c","s","s">> :> 12)
    @@ (<<".","s","c","s","s">> :> 12)
    @@ (<<".","j","s","o","n">> :> 15)
    @@ (<<".","x","m","l">> :> 15)
    @@ (<<".","y","a","m","l">> :> 12)
    @@ (<<".","y","m","l">> :> 12)
    @@ (<<".","m","d">> :> 10)
    @@ (<<".","t","x","t">> :> 8)
    @@ (<<".","s","h">> :> 15)
    @@ (<<".","s","q","l">> :> 15)

SKIP_DIRS ==
    { <<".","g","i","t">>, <<"_","_","p","y","c","a","c","h","e","_","_">>,
      <<"n","o","d","e","_","m","o","d","u","l","e","s">>,
      <<".","i","d","e","a">>, <<".","v","s","c","o","d","e">>, <<"v","e","n","v">>,
      <<"e","n","v">>, <<".","e","n","v">>, <<"d","i","s","t">>,
      <<"b","u","i","l","d">>, <<"t","a","r","g","e","t">>, <<".","n","e","x","t">>,
      <<"c","o","v","e","r","a","g","e">>,
      <<".","p","y","t","e","s","t","_","c","a","c","h","e">>,
      <<".","m","y","p","y","_","c","a","c","h","e">>,
      <<"v","e","n","d","o","r">> }

SKIP_EXTENSIONS ==
    { <<".","p","y","c">>, <<".","p","y","o">>, <<".","s","o">>,
      <<".","d","l","l">>, <<".","d","y","l","i","b">>, <<".","e","x","e">>,
      <<".","b","i","n">>, <<".","j","p","g">>, <<".","j","p","e","g">>,
      <<".","p","n","g">>, <<".","g","i","f">>, <<".","i","c","o">>,
      <<".","s","v","g">>, <<".","w","e","b","p">>, <<".","m","p","3">>,
      <<".","m","p","4">>, <<".","a","v","i">>, <<".","m","o","v">>,
      <<".","w","a","v">>, <<".","f","l","a","c">>, <<".","z","i","p">>,
      <<".","t","a","r">>, <<".","g","z">>, <<".","r","a","r">>,
      <<".","7","z">>, <<".","p","d","f">>, <<".","d","o","c">>,
      <<".","d","o","c","x">>, <<".","x","l","s">>, <<".","x","l","s","x">>,
      <<".","d","b">>, <<".","s","q","l","i","t","e">>,
      <<".","s","q","l","i","t","e","3">> }

(***************************************************************************)
(* Python floats.  A finite non-negative double is [m, e]: m the 53 bits   *)
(* of its mantissa, least significant first, and its value                 *)
(* (m[1] + 2*m[2] + ... + 2^52*m[53]) * 2^e.  A non-zero double has        *)
(* m[53] = 1.  The values of the program stay far from the subnormal and   *)
(* overflow ranges, which are not modelled.                                *)
(***************************************************************************)
\* the bits of a double's mantissa
Precision == 53

DblZero == [m |-> [i \in 1..Precision |-> 0], e |-> 0]

\* the bits of a natural number below 2^31, least significant first
NatBits(n) == [i \in 1..31 |-> (n \div 2^(i-1)) % 2]

\* the index of the highest set bit of b; 0 when no bit is set
TopBit(b) ==
    IF \E i \in 1..Len(b) : b[i] = 1
    THEN Len(b) + 1 - (CHOOSE k \in 1..Len(b) :
                          b[Len(b) + 1 - k] = 1
                          /\ \A j \in 1..(k-1) : b[Len(b) + 1 - j] = 0)
    ELSE 0

\* b + 1 for a mantissa b that is not all ones
IncBits(b) ==
    LET k == CHOOSE i \in DOMAIN b : b[i] = 0 /\ \A j \in 1..(i-1) : b[j] = 1
    IN  [i \in DOMAIN b |-> IF i < k THEN 0 ELSE IF i = k THEN 1 ELSE b[i]]

\* the double nearest to (b[1] + 2*b[2] + ...) * 2^e, ties to the even mantissa
RoundBits(b, e) ==
    LET L == TopBit(b)
    IN  IF L = 0 THEN DblZero
        ELSE IF L <= Precision
        THEN [m |-> [i \in 1..Precision |->
                        IF i > Precision - L THEN b[i - (Precision - L)] ELSE 0],
              e |-> e - (Precision - L)]
        ELSE LET s      == L - Precision
                 kept   == [i \in 1..Precision |-> b[i + s]]
                 half   == b[s]
                 sticky == \E i \in 1..(s-1) : b[i] = 1
                 up     == half = 1 /\ (sticky \/ kept[1] = 1)
             IN  IF ~up THEN [m |-> kept, e |-> e + s]
                 ELSE IF \A i \in 1..Precision : kept[i] = 1
                 THEN [m |-> [i \in 1..Precision |-> IF i = Precision THEN 1 ELSE 0],
                       e |-> e + s + 1]
                 ELSE [m |-> IncBits(kept), e |-> e + s]

\* float(n) for an int n below 2^31: exact
FromNat(n) == RoundBits(NatBits(n), 0)

RECURSIVE LimbValue(_, _, _)
\* the number whose bits are b[lo], ..., b[hi], least significant first
LimbValue(b, lo, hi) ==
    IF lo > hi THEN 0 ELSE b[lo] + 2 * LimbValue(b, lo + 1, hi)

\* the number whose bits are b[lo], ..., b[Len(b)], least significant first,
\* summed in limbs of 14 bits; a number of more than 31 bits is outside the
\* model's integers and TLC reports the overflow
BitsValue(b, lo) ==
    LET Upto(i) == IF i < Len(b) THEN i ELSE Len(b)
    IN  LimbValue(b, lo, Upto(lo + 13))
          + 2^14 * LimbValue(b, lo + 14, Upto(lo + 27))
          + 2^28 * LimbValue(b, lo + 28, Upto(lo + 30))
          + (IF \E i \in (lo + 31)..Len(b) : b[i] = 1 THEN 2^30 * 2 ELSE 0)

\* a double whose mantissa has at most 31 significant bits, as n * 2^e with n odd
\* (n = 0 for zero)
Scaled(x) ==
    IF TopBit(x.m) = 0 THEN [n |-> 0, e |-> 0]
    ELSE LET lo == CHOOSE i \in 1..Precision :
                       x.m[i] = 1 /\ \A j \in 1..(i-1) : x.m[j] = 0
         IN  [n |-> BitsValue(x.m, lo), e |-> x.e + lo - 1]

\* 2^j modulo d, for j up to 66 and d below 2^8, without a number above 2^31
PowMod(j, d) ==
    LET a == IF j < 22 THEN j ELSE 22
        b == IF j - a < 22 THEN j - a ELSE 22
        c == j - a - b
    IN  (((((2^a) % d) * ((2^b) % d)) % d) * ((2^c) % d)) % d

\* long division of r by d (r < d): the remainder left after j quotient bits
FracRem(r, d, j) == (r * PowMod(j, d)) % d

\* bit j (from 1, most significant first) of the binary fraction r/d
FracBit(r, d, j) == (2 * FracRem(r, d, j - 1)) \div d

\* n / d for ints n < 2^31 and 0 < d < 2^8 (Python's true division of ints is
\* correctly rounded): the double nearest to n/d, by long division to 64 fraction
\* bits, one more bit that is set when a remainder is left, then
\* one rounding
Quotient(n, d) ==
    LET k    == 64
        frac == [i \in 1..(k + 1) |->
                    IF i = 1 THEN (IF FracRem(n % d, d, k) = 0 THEN 0 ELSE 1)
                    ELSE FracBit(n % d, d, k + 2 - i)]
    IN  RoundBits(frac \o NatBits(n \div d), 0 - (k + 1))

\* x / y for doubles whose mantissas have few significant bits (an int below 2^31
\* over a small constant): the division is by the odd parts, the powers of two
\* only move the exponent
DblDiv(x, y) ==
    LET p == Scaled(x)
        q == Scaled(y)
        r == Quotient(p.n, q.n)
    IN  IF p.n = 0 THEN DblZero ELSE [m |-> r.m, e |-> r.e + p.e - q.e]

\* Long multiplication of two mantissas works on limbs of 14 bits: a product of
\* two limbs, and a column of four of them with a carry, stay below 2^31.
LimbBase == 2^14

\* the four limbs of a mantissa, least significant first
Limbs(b) ==
    [j \in 1..4 |->
        LimbValue(b, 14 * (j - 1) + 1, IF 14 * j < Precision THEN 14 * j ELSE Precision)]

\* column k of the long multiplication of limb sequences A and B, before carries
Column(A, B, k) ==
    LET Term(i) == IF i \in 1..4 /\ k + 1 - i \in 1..4 THEN A[i] * B[k + 1 - i] ELSE 0
    IN  Term(1) + Term(2) + Term(3) + Term(4)

RECURSIVE ProductLimbs(_, _, _)
\* the limbs of the product from column k on, c the carry into column k
ProductLimbs(cols, k, c) ==
    IF k > Len(cols) THEN << c >>
    ELSE << (cols[k] + c) % LimbBase >>
            \o ProductLimbs(cols, k + 1, (cols[k] + c) \div LimbBase)

\* the bits of the exact product of two mantissas, least significant first
ProductBits(a, b) ==
    LET cols  == [k \in 1..7 |-> Column(Limbs(a), Limbs(b), k)]
        limbs == ProductLimbs(cols, 1, 0)
    IN  [i \in 1..(14 * Len(limbs)) |->
            (limbs[(i - 1) \div 14 + 1] \div 2^((i - 1) % 14)) % 2]

\* x * y for doubles: the exact product of the mantissas, then one rounding
DblMul(x, y) == RoundBits(ProductBits(x.m, y.m), x.e + y.e)

\* int(x): the integer part of a double below 2^31
DblInt(x) ==
    IF x.e >= 0 THEN BitsValue(x.m, 1) * 2^(x.e)
    ELSE IF 0 - x.e >= Precision THEN 0
    ELSE BitsValue(x.m, 1 - x.e)

\* the float literals of estimate_tokens: 3.5 is 7/2 and 1.2 is the double
\* nearest to 12/10
Lit3_5 == DblDiv(FromNat(7), FromNat(2))

Lit1_2 == DblDiv(FromNat(12), FromNat(10))

(***************************************************************************)
(* estimate_tokens(char_count, file_extension).  file_extension is a       *)
(* string; None and the empty string are both <<>> (both are falsy).       *)
(***************************************************************************)
\* a variant of estimate_tokens that floors the line count before it multiplies
estimate_tokens_floor_lines(char_count, file_extension) ==
    IF file_extension # <<>> /\ lower(file_extension) \in DOMAIN TOKEN_MULTIPLIERS
    THEN (char_count \div 80) * TOKEN_MULTIPLIERS[lower(file_extension)]
    ELSE DblInt(DblMul(DblDiv(FromNat(char_count), Lit3_5), Lit1_2))

\* a variant of estimate_tokens whose default path leaves the factor 1.2 out
estimate_tokens_no_margin(char_count, file_extension) ==
    IF file_extension # <<>> /\ lower(file_extension) \in DOMAIN TOKEN_MULTIPLIERS
    THEN DblInt(DblMul(Quotient(char_count, 80),
                       FromNat(TOKEN_MULTIPLIERS[lower(file_extension)])))
    ELSE DblInt(DblDiv(FromNat(char_count), Lit3_5))

estimate_tokens(char_count, file_extension) ==
    LET base_tokens == DblDiv(FromNat(char_count), Lit3_5)
    IN  IF file_extension # <<>> /\ lower(file_extension) \in DOMAIN TOKEN_MULTIPLIERS
        THEN LET lines == Quotient(char_count, 80)
             IN  DblInt(DblMul(lines, FromNat(TOKEN_MULTIPLIERS[lower(file_extension)])))
        ELSE DblInt(DblMul(base_tokens, Lit1_2))

(***************************************************************************)
(* The file system.  A file entry is what the scan can observe of a file:  *)
(* its name, whether stat() succeeds and the size it reports, whether      *)
(* open()/read() succeeds and the number of characters the decoded content *)
(* has.  A directory is its name, its parent (0 for the target directory)  *)
(* and its file entries in the order os.walk lists them.                   *)
(***************************************************************************)
File(name, stat_ok, size, read_ok, chars) ==
    [name |-> name, stat_ok |-> stat_ok, size |-> size,
     read_ok |-> read_ok, chars |-> chars]

\* the file entries the directory trees of the model are made of
Catalog ==
    <<
       File(<<"a",".","p","y">>,
            TRUE, 80, TRUE, 80),
       File(<<".","e","n","v">>,
            TRUE, 10, TRUE, 10),
       File(<<"i","m","a","g","e",".","p","n","g">>,
            TRUE, 500, TRUE, 0),
       File(<<"b",".","P","Y">>,
            TRUE, 656, TRUE, 656),
       File(<<"b","i","g",".","t","x","t">>,
            TRUE, 1048577, TRUE, 1048577),
       File(<<"M","a","k","e","f","i","l","e">>,
            TRUE, 35, TRUE, 35),
       File(<<"g","o","n","e",".","j","s">>,
            FALSE, 0, TRUE, 0),
       File(<<"e","d","g","e",".","m","d">>,
            TRUE, 1048576, TRUE, 1000),
       File(<<"l","o","c","k","e","d",".","c">>,
            TRUE, 40, FALSE, 0),
       File(<<"c",".","j","s">>,
            TRUE, 40, TRUE, 40),
       File(<<"d",".","p","y">>,
            TRUE, 48, TRUE, 48),
       File(<<"P","H","O","T","O",".","J","P","G">>,
            TRUE, 300, TRUE, 0),
       File(<<"n","o","t","e","s",".","f","o","o">>,
            TRUE, 30, TRUE, 26),
       File(<<".","h","i","d","d","e","n",".","p","y">>,
            FALSE, 0, TRUE, 0),
       File(<<"d","u","m","p",".","s","q","l">>,
            TRUE, 2097153, TRUE, 2097153),
       File(<<"e","d","g","e","2",".","c","s","s">>,
            TRUE, 2097152, TRUE, 2097152),
       File(<<"a","r","c","h","i","v","e",".","t","a","r",".","g","z">>,
            TRUE, 64, FALSE, 0),
       File(<<"e",".","p","y">>,
            TRUE, 80, TRUE, 80)
    >>

\* len consecutive entries of the catalog from entry start on, wrapping around
FileList(start, len) ==
    [i \in 1..len |-> Catalog[((start + i - 2) % Len(Catalog)) + 1]]

Dir(name, parent, files) == [name |-> name, parent |-> parent, files |-> files]

\* the names of the subdirectories: the first is a child of the target directory,
\* the second a child of the first
SubdirNames ==
    { <<<<"s","r","c">>, <<"n","o","d","e","_","m","o","d","u","l","e","s">>>>,
      <<<<".","g","i","t">>, <<"l","i","b">>>>,
      <<<<"B","u","i","l","d">>, <<"l","i","b">>>>,
      <<<<"s","r","c">>, <<"l","i","b">>>> }

\* a tree of four directories filled with consecutive entries of the catalog:
\* the target (1), its child (2), the child's child (3), a second child (4)
Tree(start, l1, l2, names) ==
    << Dir(<<>>, 0, FileList(start, l1)),
       Dir(names[1], 1, FileList(start + l1, l2)),
       Dir(names[2], 2, FileList(start + l1 + l2, 1)),
       Dir(<<"d","o","c","s">>, 1, FileList(start + l1 + l2 + 1, 1)) >>

Trees ==
    { Tree(start, l1, l2, names) :
        start \in 1..Len(Catalog), l1 \in 0..MaxFiles, l2 \in 0..MaxFiles,
        names \in SubdirNames }

\* the values of --max-file-size
FileSizeLimits == 1..2

(***************************************************************************)
(* The state.                                                              *)
(***************************************************************************)
VARIABLES
    est_pc, est_chars, est_ext, est_tokens,  \* a call of estimate_tokens
    target,             \* what the path argument names: "missing", "file", "dir"
    max_file_size_mb,   \* --max-file-size
    tree,               \* the directories below the target, tree[1] the target
    pc,                 \* "main", "walk" (inside os.walk's loop), "done"
    stack,              \* os.walk's directories still to list
    cur,                \* the directory whose files are being handled (0: none)
    idx,                \* the next entry of tree[cur].files
    stats,              \* the stats dict of analyze_directory, None before it
    exit_code,          \* the exit status of the process, -1 while it runs
    run,                \* 1 in the first run of the tool, 2 in a second one
    first,              \* what the first run returned and processed
    visited,            \* history: the file entries <<directory, index>> handled
    processed           \* history: the records appended to largest_files

est_vars == <<est_pc, est_chars, est_ext, est_tokens>>

scan_vars ==
    <<target, max_file_size_mb, tree, pc, stack, cur, idx, stats, exit_code,
      run, first, visited, processed>>

vars == <<est_vars, scan_vars>>

None == [none |-> TRUE]

IsNone(x) == DOMAIN x = {"none"}

(***************************************************************************)
(* should_skip_file(file_path), on the file's name.                        *)
(***************************************************************************)
\* a variant of should_skip_file that compares the suffix as it is written
should_skip_file_exact_case(name) ==
    \/ startswith(name, ".")
    \/ suffix(name) \in SKIP_EXTENSIONS

should_skip_file(name) ==
    \/ startswith(name, ".")
    \/ lower(suffix(name)) \in SKIP_EXTENSIONS

(***************************************************************************)
(* analyze_directory: the pieces of its loop.                              *)
(***************************************************************************)
\* the stats dict as created
NewStats ==
    [total_chars |-> 0, total_tokens |-> 0, total_files |-> 0,
     skipped_files |-> 0, errors |-> 0,
     by_extension |-> <<>>, largest_files |-> <<>>]

\* max_file_size_mb * 1024 * 1024
max_size_bytes == max_file_size_mb * 1024 * 1024

\* a variant of KeepDir that prunes nothing
KeepDirAll(name) == TRUE

\* the directories os.walk would descend into that the loop keeps in dirs[:]
KeepDir(name) == name \notin SKIP_DIRS

\* stats['skipped_files'] += 1
CountSkipped(st) == [st EXCEPT !.skipped_files = @ + 1]

\* a variant of CountError that also counts the file as analyzed
CountErrorAsFile(st) == [st EXCEPT !.errors = @ + 1, !.total_files = @ + 1]

\* the except clause: stats['errors'] += 1
CountError(st) == [st EXCEPT !.errors = @ + 1]

\* the key of by_extension: file_path.suffix.lower() or '.no_ext'
ExtensionKey(name) ==
    IF lower(suffix(name)) = <<>> THEN <<".","n","o","_","e","x","t">> ELSE lower(suffix(name))

\* a variant of FoldFile that overwrites the entry of the extension
FoldFileOverwrite(st, relative_path, name, char_count, tokens, file_size) ==
    LET key == ExtensionKey(name)
    IN  [st EXCEPT
            !.total_chars   = @ + char_count,
            !.total_tokens  = @ + tokens,
            !.total_files   = @ + 1,
            !.by_extension  = [k \in (DOMAIN st.by_extension) \cup {key} |->
                                  IF k = key
                                  THEN [files |-> 1, chars |-> char_count,
                                        tokens |-> tokens]
                                  ELSE st.by_extension[k]],
            !.largest_files = Append(@, [path   |-> relative_path,
                                         chars  |-> char_count,
                                         tokens |-> tokens,
                                         size   |-> file_size])]

\* a variant of FoldFile that counts every file that was read twice
FoldFileTwice(st, relative_path, name, char_count, tokens, file_size) ==
    LET key == ExtensionKey(name)
        old == IF key \in DOMAIN st.by_extension
               THEN st.by_extension[key]
               ELSE [files |-> 0, chars |-> 0, tokens |-> 0]
        new == [files  |-> old.files + 2,
                chars  |-> old.chars + char_count,
                tokens |-> old.tokens + tokens]
    IN  [st EXCEPT
            !.total_chars   = @ + char_count,
            !.total_tokens  = @ + tokens,
            !.total_files   = @ + 2,
            !.by_extension  = [k \in (DOMAIN st.by_extension) \cup {key} |->
                                  IF k = key THEN new ELSE st.by_extension[k]],
            !.largest_files = Append(@, [path   |-> relative_path,
                                         chars  |-> char_count,
                                         tokens |-> tokens,
                                         size   |-> file_size])]

\* the update of the statistics by one file that was read
FoldFile(st, relative_path, name, char_count, tokens, file_size) ==
    LET key == ExtensionKey(name)
        old == IF key \in DOMAIN st.by_extension
               THEN st.by_extension[key]
               ELSE [files |-> 0, chars |-> 0, tokens |-> 0]
        new == [files  |-> old.files + 1,
                chars  |-> old.chars + char_count,
                tokens |-> old.tokens + tokens]
    IN  [st EXCEPT
            !.total_chars   = @ + char_count,
            !.total_tokens  = @ + tokens,
            !.total_files   = @ + 1,
            !.by_extension  = [k \in (DOMAIN st.by_extension) \cup {key} |->
                                  IF k = key THEN new ELSE st.by_extension[k]],
            !.largest_files = Append(@, [path   |-> relative_path,
                                         chars  |-> char_count,
                                         tokens |-> tokens,
                                         size   |-> file_size])]

\* the length of the top-files list: largest_files[:20]
TopN == 20

\* a variant of SortByTokens that leaves the list in the order of the visit
SortByTokensUnsorted(list) == list

\* list.sort(key=tokens, reverse=True): descending and stable, so records of
\* equal tokens keep the order they were appended in
SortByTokens(list) ==
    LET n == Len(list)
        Rank(i) == 1 + Cardinality({ j \in 1..n :
                                       \/ list[j].tokens > list[i].tokens
                                       \/ list[j].tokens = list[i].tokens /\ j < i })
    IN  [p \in 1..n |-> list[CHOOSE i \in 1..n : Rank(i) = p]]

\* a variant of TopFiles that cuts the list before it sorts it
TopFilesCutFirst(list) ==
    SortByTokens(SubSeq(list, 1, IF Len(list) < TopN THEN Len(list) ELSE TopN))

\* the two statements after the loop: sort, then keep the first 20
TopFiles(list) ==
    SubSeq(SortByTokens(list), 1, IF Len(list) < TopN THEN Len(list) ELSE TopN)

RECURSIVE DirPath(_, _)
\* the path of directory d relative to the target, with a trailing separator
DirPath(t, d) ==
    IF t[d].parent = 0 THEN <<>>
    ELSE DirPath(t, t[d].parent) \o t[d].name \o <<"/">>

\* str(file_path.relative_to(directory))
RelativePath(t, d, name) == DirPath(t, d) \o name

\* the subdirectories of directory d, in the order os.walk lists them
Children(t, d) ==
    SelectSeq([i \in 1..Len(t) |-> i], LAMBDA c : t[c].parent = d)

(***************************************************************************)
(* The initial states.                                                     *)
(***************************************************************************)
EstIdle ==
    /\ est_pc = "idle"
    /\ est_chars = 0
    /\ est_ext = <<>>
    /\ est_tokens = 0

\* main is entered with a path argument and a size limit; trees are the
\* directory trees the path may name
InitScan(trees) ==
    /\ target \in {"missing", "file", "dir"}
    /\ tree \in (IF target = "dir" THEN trees ELSE {<<>>})
    /\ max_file_size_mb \in FileSizeLimits
    /\ pc = "main"
    /\ stack = <<>>
    /\ cur = 0
    /\ idx = 1
    /\ stats = None
    /\ exit_code = -1
    /\ run = 1
    /\ first = None
    /\ visited = {}
    /\ processed = <<>>

Init == EstIdle /\ InitScan(Trees)

(***************************************************************************)
(* main and analyze_directory, one action per step of the scan.            *)
(***************************************************************************)
\* the directory being listed has no entry left (or none is being listed yet)
AtEndOfDir == IF cur = 0 THEN TRUE ELSE idx > Len(tree[cur].files)

\* the file entry the loop handles next
CurFile == tree[cur].files[idx]

HasFile == pc = "walk" /\ ~AtEndOfDir

\* what every iteration of "for file_name in files" does besides the statistics
NextFile ==
    /\ idx' = idx + 1
    /\ visited' = visited \cup {<<cur, idx>>}
    /\ UNCHANGED <<est_vars, target, max_file_size_mb, tree, pc, stack, cur,
                   exit_code, run, first>>

\* the target does not exist or is not a directory: the message, return None,
\* main prints no report and returns
RejectTarget ==
    /\ pc = "main"
    /\ target # "dir"
    /\ pc' = "done"
    /\ exit_code' = 0
    /\ UNCHANGED <<est_vars, target, max_file_size_mb, tree, stack, cur, idx,
                   stats, run, first, visited, processed>>

\* the target is a directory: stats is created and os.walk starts at it
Start ==
    /\ pc = "main"
    /\ target = "dir"
    /\ stats' = NewStats
    /\ stack' = <<1>>
    /\ cur' = 0
    /\ idx' = 1
    /\ pc' = "walk"
    /\ UNCHANGED <<est_vars, target, max_file_size_mb, tree, exit_code, run,
                   first, visited, processed>>

\* os.walk yields the next directory; the loop body drops the subdirectories
\* named in SKIP_DIRS from dirs, and os.walk will descend into the others
EnterDirectory ==
    /\ pc = "walk"
    /\ AtEndOfDir
    /\ stack # <<>>
    /\ LET d    == Head(stack)
           dirs == SelectSeq(Children(tree, d), LAMBDA c : KeepDir(tree[c].name))
       IN  /\ stack' = dirs \o Tail(stack)
           /\ cur' = d
    /\ idx' = 1
    /\ UNCHANGED <<est_vars, target, max_file_size_mb, tree, pc, stats, exit_code,
                   run, first, visited, processed>>

\* should_skip_file is true
SkipFile ==
    /\ HasFile
    /\ should_skip_file(CurFile.name)
    /\ stats' = CountSkipped(stats)
    /\ UNCHANGED processed
    /\ NextFile

\* file_path.stat() raises
StatError ==
    /\ HasFile
    /\ ~should_skip_file(CurFile.name)
    /\ ~CurFile.stat_ok
    /\ stats' = CountError(stats)
    /\ UNCHANGED processed
    /\ NextFile

\* the file is larger than the limit
SkipLarge ==
    /\ HasFile
    /\ ~should_skip_file(CurFile.name)
    /\ CurFile.stat_ok
    /\ CurFile.size > max_size_bytes
    /\ stats' = CountSkipped(stats)
    /\ UNCHANGED processed
    /\ NextFile

\* open() or read() raises
ReadError ==
    /\ HasFile
    /\ ~should_skip_file(CurFile.name)
    /\ CurFile.stat_ok
    /\ ~(CurFile.size > max_size_bytes)
    /\ ~CurFile.read_ok
    /\ stats' = CountError(stats)
    /\ UNCHANGED processed
    /\ NextFile

\* the file is read, estimated and folded into the statistics
ProcessFile ==
    /\ HasFile
    /\ ~should_skip_file(CurFile.name)
    /\ CurFile.stat_ok
    /\ ~(CurFile.size > max_size_bytes)
    /\ CurFile.read_ok
    /\ LET char_count == CurFile.chars
           tokens     == estimate_tokens(char_count, suffix(CurFile.name))
       IN  /\ stats' = FoldFile(stats, RelativePath(tree, cur, CurFile.name),
                                CurFile.name, char_count, tokens, CurFile.size)
           /\ processed' = Append(processed, stats'.largest_files[Len(stats'.largest_files)])
    /\ NextFile

\* the values of --limit
TokenLimits == {0, 200000}

\* os.walk is exhausted: the list is sorted and cut, stats is returned, and main
\* prints the report, which divides by the token limit
Finish ==
    /\ pc = "walk"
    /\ AtEndOfDir
    /\ stack = <<>>
    /\ stats' = [stats EXCEPT !.largest_files = TopFiles(@)]
    /\ pc' = "done"
    /\ \E token_limit \in TokenLimits :
          exit_code' = IF token_limit = 0 THEN 1 ELSE 0
    /\ UNCHANGED <<est_vars, target, max_file_size_mb, tree, stack, cur, idx, run,
                   first, visited, processed>>

\* directory d of tree t with its entries i and i+1 listed in the other order
SwapFiles(t, d, i) ==
    [t EXCEPT ![d] = [t[d] EXCEPT !.files =
        [k \in 1..Len(t[d].files) |->
            IF k = i THEN t[d].files[i + 1]
            ELSE IF k = i + 1 THEN t[d].files[i]
            ELSE t[d].files[k]]]]

\* the same tree as a later os.walk may list it
Reorderings(t) ==
    {t} \cup UNION { { SwapFiles(t, d, i) : i \in 1..(Len(t[d].files) - 1) } :
                       d \in 1..Len(t) }

\* the tool is run a second time on the unchanged tree, with the same arguments
Rerun ==
    /\ pc = "done"
    /\ run = 1
    /\ run' = 2
    /\ first' = [stats |-> stats, processed |-> processed]
    /\ tree' \in Reorderings(tree)
    /\ pc' = "main"
    /\ stack' = <<>>
    /\ cur' = 0
    /\ idx' = 1
    /\ stats' = None
    /\ exit_code' = -1
    /\ visited' = {}
    /\ processed' = <<>>
    /\ UNCHANGED <<est_vars, target, max_file_size_mb>>

Next ==
    \/ RejectTarget
    \/ Start
    \/ EnterDirectory
    \/ SkipFile
    \/ StatError
    \/ SkipLarge
    \/ ReadError
    \/ ProcessFile
    \/ Finish
    \/ Rerun

Spec == Init /\ [][Next]_vars

(***************************************************************************)
(* estimate_tokens on its own: every char_count up to MaxChars, with       *)
(* extensions in and out of the table, in both cases, and none.            *)
(***************************************************************************)
EstExtensions ==
    { <<>>, <<".","p","y">>, <<".","P","Y">>, <<".","j","s">>, <<".","m","d">>,
      <<".","t","x","t">>, <<".","J","a","v","a">>, <<".","c">>, <<".","g","o">>,
      <<".","c","s","s">>, <<".","f","o","o">>, <<".","p","n","g">> }

ScanIdle ==
    /\ target = "missing"
    /\ tree = <<>>
    /\ max_file_size_mb = 1
    /\ pc = "idle"
    /\ stack = <<>>
    /\ cur = 0
    /\ idx = 1
    /\ stats = None
    /\ exit_code = -1
    /\ run = 1
    /\ first = None
    /\ visited = {}
    /\ processed = <<>>

InitEst ==
    /\ est_pc = "call"
    /\ est_chars \in 0..MaxChars
    /\ est_ext \in EstExtensions
    /\ est_tokens = 0
    /\ ScanIdle

Estimate ==
    /\ est_pc = "call"
    /\ est_tokens' = estimate_tokens(est_chars, est_ext)
    /\ est_pc' = "return"
    /\ UNCHANGED <<est_chars, est_ext, scan_vars>>

NextEst == Estimate

SpecEst == InitEst /\ [][NextEst]_vars

(***************************************************************************)
(* Large directories: the target lists more files than the top-files list  *)
(* holds.  Beside four entries of the catalog it lists n generated text    *)
(* files whose character counts cycle through the multiples of 16 below    *)
(* 176, so that records arrive out of order and tie on their tokens.       *)
(***************************************************************************)
Digits == <<"0","1","2","3","4","5","6","7","8","9">>

GenExtensions == << <<".","t","x","t">>, <<".","p","y">>, <<".","d","a","t">> >>

GenFile(i, stride) ==
    LET c == 16 * ((i * stride) % 11)
    IN  File(<<"f", Digits[(i \div 10) + 1], Digits[(i % 10) + 1]>>
                \o GenExtensions[(i % 3) + 1],
             TRUE, c, TRUE, c)

TopTree(n, stride) ==
    << Dir(<<>>, 0, FileList(2, 4) \o [i \in 1..n |-> GenFile(i, stride)]),
       Dir(<<"s","r","c">>, 1, FileList(7, 3)),
       Dir(<<".","g","i","t">>, 1, FileList(1, 1)) >>

TopTrees ==
    { TopTree(n, stride) : n \in (TopN - 2)..(TopN + MaxExtra), stride \in {1, 3} }

InitTop == EstIdle /\ InitScan(TopTrees)

SpecTop == InitTop /\ [][Next]_vars

(***************************************************************************)
(* Properties of estimate_tokens, checked under SpecEst.                   *)
(***************************************************************************)
\* the extension selects an entry of TOKEN_MULTIPLIERS
InTable(ext) == ext # <<>> /\ lower(ext) \in DOMAIN TOKEN_MULTIPLIERS

Multiplier(ext) == TOKEN_MULTIPLIERS[lower(ext)]

\* C1 as stated: for an extension of the table with multiplier m the estimate
\* is floor(char_count / 80) * m, the line count being floored before it is
\* multiplied, so that every char_count below 80 estimates to 0.
C1_FloorBeforeMultiply ==
    (est_pc = "return" /\ InTable(est_ext))
        => est_tokens = (est_chars \div 80) * Multiplier(est_ext)

\* C1 as the code has it: the line count char_count / 80 is a float and only
\* the product is truncated.  The estimate is floor(char_count * m / 80), or
\* one less than that where the rounding of the float quotient shows, which
\* needs char_count * m to be a multiple of 80 and char_count not to be one;
\* it is floor(char_count / 80) * m when char_count is a multiple of 80, and a
\* char_count below 80 estimates to 0 exactly when char_count * m < 80.
C1_TruncateAfterMultiply ==
    (est_pc = "return" /\ InTable(est_ext))
        => LET m     == Multiplier(est_ext)
               exact == (est_chars * m) \div 80
           IN  /\ est_tokens \in {exact, exact - 1}
               /\ est_tokens = exact - 1
                     => (est_chars * m) % 80 = 0 /\ est_chars % 80 # 0
               /\ est_chars % 80 = 0 => est_tokens = (est_chars \div 80) * m
               /\ est_chars < 80 => (est_tokens = 0 <=> est_chars * m < 80)

\* 656 characters of Python, the extension in capitals: 656 / 80 * 15 is
\* 122.99999999999999 as a float, and the estimate is 122
C1_Witness ==
    /\ est_pc = "return"
    /\ est_ext = <<".","P","Y">>
    /\ est_chars = 656
    /\ est_tokens = 122

\* C8: for an extension that is absent or not in the table the estimate is
\* floor(char_count / 3.5 * 1.2) = floor(12 * char_count / 35), and a
\* char_count of 0 estimates to 0 whatever the extension.
C8_DefaultEstimate ==
    est_pc = "return"
        => /\ ~InTable(est_ext) => est_tokens = (12 * est_chars) \div 35
           /\ est_chars = 0 => est_tokens = 0

\* 699 characters with an extension the table does not have: 239 tokens
C8_Witness ==
    /\ est_pc = "return"
    /\ est_ext = <<".","f","o","o">>
    /\ est_chars = 699
    /\ est_tokens = 239

(***************************************************************************)
(* Properties of the scan, checked under Spec.                             *)
(***************************************************************************)
RECURSIVE SumField(_, _, _)
\* the sum of one field over the entries of by_extension with the given keys
SumField(by_extension, keys, field) ==
    IF keys = {} THEN 0
    ELSE LET k == CHOOSE x \in keys : TRUE
         IN  by_extension[k][field] + SumField(by_extension, keys \ {k}, field)

\* C2: whenever Statistics exist, between two files and when they are returned,
\* total_files, total_tokens and total_chars are the sums of files, tokens and
\* chars over the entries of by_extension.
C2_TotalsAreSums ==
    ~IsNone(stats)
        => LET by_extension == stats.by_extension
               keys         == DOMAIN by_extension
           IN  /\ stats.total_files  = SumField(by_extension, keys, "files")
               /\ stats.total_tokens = SumField(by_extension, keys, "tokens")
               /\ stats.total_chars  = SumField(by_extension, keys, "chars")

\* returned Statistics with several extensions, one of them with several files
C2_Witness ==
    /\ pc = "done"
    /\ ~IsNone(stats)
    /\ Cardinality(DOMAIN stats.by_extension) >= 2
    /\ \E k \in DOMAIN stats.by_extension : stats.by_extension[k].files >= 2
    /\ stats.total_tokens > 0

\* C3 as stated: a target that is missing or not a directory gives no
\* Statistics and a non-zero exit status, and every run on an existing
\* directory exits with status zero.
C3_ExitStatus ==
    pc = "done"
        => /\ target # "dir" => (IsNone(stats) /\ exit_code # 0)
           /\ target = "dir" => exit_code = 0

RECURSIVE Pruned(_, _)
\* directory d of tree t is, or lies below, a subdirectory named in SKIP_DIRS
Pruned(t, d) ==
    IF t[d].parent = 0 THEN FALSE
    ELSE t[d].name \in SKIP_DIRS \/ Pruned(t, t[d].parent)

\* the file entries of the tree, as <<directory, index>>, outside such directories
WalkedFiles ==
    UNION { { <<d, i>> : i \in 1..Len(tree[d].files) } :
              d \in { e \in 1..Len(tree) : ~Pruned(tree, e) } }

\* the relative paths of the files inside such directories
PrunedPaths ==
    UNION { { RelativePath(tree, d, tree[d].files[i].name) :
                i \in 1..Len(tree[d].files) } :
              d \in { e \in 1..Len(tree) : Pruned(tree, e) } }

Counted(st) == st.total_files + st.skipped_files + st.errors

\* C6: no file below a subdirectory named in SKIP_DIRS is visited; the three
\* counters count files outside such directories only, no entry of
\* by_extension counts more files than there are outside them, and no record
\* of largest_files names a file inside one.
C6_PrunedNeverVisited ==
    /\ \A v \in visited : ~Pruned(tree, v[1])
    /\ ~IsNone(stats)
          => /\ Counted(stats) <= Cardinality(WalkedFiles)
             /\ \A k \in DOMAIN stats.by_extension :
                   stats.by_extension[k].files
                      <= Cardinality({ v \in WalkedFiles :
                             ExtensionKey(tree[v[1]].files[v[2]].name) = k })
             /\ \A i \in 1..Len(stats.largest_files) :
                   stats.largest_files[i].path \notin PrunedPaths
    /\ (pc = "done" /\ ~IsNone(stats))
          => Counted(stats) = Cardinality(WalkedFiles)

\* a finished scan of a tree with files in a directory below a pruned one
C6_Witness ==
    /\ pc = "done"
    /\ ~IsNone(stats)
    /\ stats.total_files >= 1
    /\ \E d \in 1..Len(tree) :
          /\ Pruned(tree, d)
          /\ tree[d].name \notin SKIP_DIRS
          /\ tree[d].files # <<>>

\* the file is hidden or has an extension of SKIP_EXTENSIONS
SkipsByName(f) ==
    startswith(f.name, ".") \/ lower(suffix(f.name)) \in SKIP_EXTENSIONS

\* the file passes every test and is read
Readable(f) ==
    /\ ~SkipsByName(f)
    /\ f.stat_ok
    /\ f.size <= max_file_size_mb * 1024 * 1024
    /\ f.read_ok

\* C7: a file that is hidden, has a skipped extension, or whose size is
\* greater than the limit adds one to skipped_files and changes nothing else
\* of Statistics; a file whose size equals the limit is not skipped for size.
C7_SkipCountsOnly ==
    [][ /\ ( /\ HasFile
             /\ \/ SkipsByName(CurFile)
                \/ /\ CurFile.stat_ok
                   /\ CurFile.size > max_file_size_mb * 1024 * 1024 )
           => stats' = [stats EXCEPT !.skipped_files = @ + 1]
        /\ ( /\ HasFile
             /\ ~SkipsByName(CurFile)
             /\ CurFile.stat_ok
             /\ CurFile.size = max_file_size_mb * 1024 * 1024 )
           => stats'.skipped_files = stats.skipped_files ]_vars

\* a scan that has met a hidden file, a file over the limit and a file of
\* exactly the limit, and has read the last
C7_Witness ==
    /\ ~IsNone(stats)
    /\ stats.skipped_files >= 2
    /\ \E v \in visited : startswith(tree[v[1]].files[v[2]].name, ".")
    /\ \E v \in visited :
          LET f == tree[v[1]].files[v[2]]
          IN  ~SkipsByName(f) /\ f.stat_ok /\ f.size > max_file_size_mb * 1024 * 1024
    /\ \E v \in visited :
          LET f == tree[v[1]].files[v[2]]
          IN  /\ Readable(f)
              /\ f.size = max_file_size_mb * 1024 * 1024
              /\ \E i \in 1..Len(processed) :
                    processed[i].path = RelativePath(tree, v[1], f.name)

\* C9: a file that is not skipped and whose stat, open or read fails adds one
\* to errors and changes nothing else of Statistics, and the loop goes on with
\* the next entry; when the scan returns, every file outside the pruned
\* directories has been visited.
C9_ErrorCountsOnly ==
    /\ []((pc = "done" /\ ~IsNone(stats)) => visited = WalkedFiles)
    /\ [][ ( /\ HasFile
             /\ ~SkipsByName(CurFile)
             /\ \/ ~CurFile.stat_ok
                \/ /\ CurFile.size <= max_file_size_mb * 1024 * 1024
                   /\ ~CurFile.read_ok )
           => /\ stats' = [stats EXCEPT !.errors = @ + 1]
              /\ pc' = "walk"
              /\ cur' = cur
              /\ stack' = stack
              /\ idx' = idx + 1
              /\ visited' = visited \cup {<<cur, idx>>} ]_vars

\* a finished scan in which a file that failed is followed, in the same
\* directory, by a file that was read
C9_Witness ==
    /\ pc = "done"
    /\ ~IsNone(stats)
    /\ stats.errors >= 2
    /\ \E v \in visited, w \in visited :
          /\ v[1] = w[1]
          /\ v[2] < w[2]
          /\ ~SkipsByName(tree[v[1]].files[v[2]])
          /\ ~tree[v[1]].files[v[2]].stat_ok
          /\ Readable(tree[w[1]].files[w[2]])

\* C10: total_files + skipped_files + errors is the number of file entries
\* visited so far, and none of the three counters ever decreases during a run.
C10_CountersPartitionVisits ==
    /\ [](~IsNone(stats) => Counted(stats) = Cardinality(visited))
    /\ [][ (~IsNone(stats) /\ ~IsNone(stats'))
           => /\ stats'.total_files >= stats.total_files
              /\ stats'.skipped_files >= stats.skipped_files
              /\ stats'.errors >= stats.errors ]_vars

\* a finished scan with files of all three kinds
C10_Witness ==
    /\ pc = "done"
    /\ ~IsNone(stats)
    /\ stats.total_files >= 2
    /\ stats.skipped_files >= 1
    /\ stats.errors >= 1

\* C5 as stated: a second run on the unchanged tree returns the Statistics of
\* the first, whatever order the files of a directory are listed in.
C5_IdenticalStatistics ==
    (run = 2 /\ pc = "done") => stats = first.stats

\* no two records of the list have the same tokens
NoTies(list) ==
    \A i \in 1..Len(list), j \in 1..Len(list) :
        i # j => list[i].tokens # list[j].tokens

\* the position of a record in a list that holds it
Position(list, r) == CHOOSE i \in 1..Len(list) : list[i] = r

\* C5 as the code has it: the second run returns the same counters and the
\* same by_extension, and a top-files list of the same length with the same
\* tokens position by position; records of equal tokens stand in the order
\* they were visited in, so the list as a whole is the same when no two files
\* that were read have equal tokens.
C5_IdenticalUpToTies ==
    (run = 2 /\ pc = "done")
        => IF IsNone(first.stats) THEN IsNone(stats)
           ELSE /\ ~IsNone(stats)
                /\ stats.total_files = first.stats.total_files
                /\ stats.total_tokens = first.stats.total_tokens
                /\ stats.total_chars = first.stats.total_chars
                /\ stats.skipped_files = first.stats.skipped_files
                /\ stats.errors = first.stats.errors
                /\ stats.by_extension = first.stats.by_extension
                /\ Len(stats.largest_files) = Len(first.stats.largest_files)
                /\ \A i \in 1..Len(stats.largest_files) :
                      stats.largest_files[i].tokens
                         = first.stats.largest_files[i].tokens
                /\ \A i \in 1..Len(stats.largest_files),
                      j \in 1..Len(stats.largest_files) :
                      ( /\ i < j
                        /\ stats.largest_files[i].tokens
                              = stats.largest_files[j].tokens )
                         => Position(processed, stats.largest_files[i])
                               < Position(processed, stats.largest_files[j])
                /\ NoTies(processed)
                      => stats.largest_files = first.stats.largest_files

\* a second run that read two files of equal tokens in the other order and
\* returns them in the other order
C5_Witness ==
    /\ run = 2
    /\ pc = "done"
    /\ ~IsNone(stats)
    /\ processed # first.processed
    /\ stats.largest_files # first.stats.largest_files
    /\ stats.by_extension = first.stats.by_extension

(***************************************************************************)
(* Properties of the top-files list, checked under SpecTop.                *)
(***************************************************************************)
\* C4: the returned largest_files has min(20, total_files) records, their
\* tokens never increase along the list, every record is one of a file that
\* was read, and no file that was read and is not on the list has more tokens
\* than a record of the list.
C4_TopFiles ==
    (pc = "done" /\ ~IsNone(stats))
        => LET top == stats.largest_files
           IN  /\ Len(top) = IF stats.total_files < 20 THEN stats.total_files ELSE 20
               /\ \A i \in 1..(Len(top) - 1) : top[i].tokens >= top[i + 1].tokens
               /\ \A i \in 1..Len(top) :
                     \E j \in 1..Len(processed) : processed[j] = top[i]
               /\ \A j \in 1..Len(processed) :
                     (\A i \in 1..Len(top) : top[i] # processed[j])
                        => \A i \in 1..Len(top) :
                              processed[j].tokens <= top[i].tokens

\* more than 20 files were read, and one with tokens is left off the list
C4_Witness ==
    /\ pc = "done"
    /\ ~IsNone(stats)
    /\ stats.total_files > 20
    /\ Len(stats.largest_files) = 20
    /\ \E j \in 1..Len(processed) :
          /\ \A i \in 1..20 : stats.largest_files[i] # processed[j]
          /\ processed[j].tokens > 0

====
